---- MODULE Spec2Model ----
(***************************************************************************)
(* Model of src/app.py: the Streamlit data-flow visualisation script.      *)
(* One run of the script is modelled: an upload is read by process_data    *)
(* (read_excel, column check, fillna), then the main logic shows the       *)
(* preview, builds the networkx DiGraph and writes the per-column summary. *)
(*                                                                         *)
(* Column names are strings.  A cell is a sequence of one-character        *)
(* strings, so that the characters of a label can be inspected; the        *)
(* missing cell pandas reads from an empty spreadsheet cell is NaN.        *)
(***************************************************************************)
EXTENDS Integers, Sequences, FiniteSets, TLC

\* Largest number of rows of an uploaded table.
MaxRows == 2

----------------------------------------------------------------------------
\* Data

expected_columns ==
    << "Use Case/Scenario",
       "Functional Area",
       "DCL",
       "Where data is sourced from",
       "Platform used to aggregate data",
       "Platform used to analyze data",
       "Platform used to publish curated data",
       "Compliance" >>

SourceCol == "Where data is sourced from"
AggCol == "Platform used to aggregate data"
AnalysisCol == "Platform used to analyze data"
PublishCol == "Platform used to publish curated data"
ComplianceCol == "Compliance"

Range(s) == {s[i] : i \in DOMAIN s}

ExpectedSet == Range(expected_columns)
LineageCols == <<SourceCol, AggCol, AnalysisCol, PublishCol>>
LineageSet == Range(LineageCols)

\* The value pandas gives an empty cell, and the filler of fillna.
NaN == <<"NaN">>
NA == <<"N", "/", "A">>

\* Python's None, for the variables that hold a table, a graph or a list.
None == [kind |-> "None"]

----------------------------------------------------------------------------
\* Uploads the run is checked on

LineageCells == {NaN, <<"A">>}
\* The Compliance cell of a row and the cell of its three descriptive columns.
RowTags == {<< <<"Y", "e", "s">>, NaN >>, << <<"N", "o">>, <<"D">> >>}

RowOf(l, comp, d) ==
    [c \in ExpectedSet |->
        IF c \in LineageSet THEN l[c]
        ELSE IF c = ComplianceCol THEN comp
        ELSE d]

SalesRow ==
    [c \in ExpectedSet |->
        IF c = SourceCol THEN <<"S", "a", "l", "e", "s", " ", "D", "B">>
        ELSE IF c = AggCol THEN <<"E", "T", "L", "/", "S", "p", "a", "r", "k">>
        ELSE IF c = AnalysisCol THEN <<"T", "a", "b", "l", "e", "a", "u">>
        ELSE IF c = PublishCol
             THEN <<"D", "a", "t", "a", " ", "P", "o", "r", "t", "a", "l">>
        ELSE IF c = ComplianceCol THEN NaN
        ELSE <<"D">>]

RichRows ==
    {RowOf(l, t[1], t[2]) : l \in [LineageSet -> LineageCells], t \in RowTags}
    \cup {SalesRow}

UniformRows(cols) == {[c \in cols |-> v] : v \in {NaN, <<"A">>}}

SeqUpTo(S, n) == UNION {[1..k -> S] : k \in 0..n}

AllCols == ExpectedSet \cup {"Notes"}

Table(cols, rows) == [kind |-> "DataFrame", columns |-> cols, rows |-> rows]

\* Tables holding every expected column, with rows of mixed content.
CompleteTables == {Table(ExpectedSet, rs) : rs \in SeqUpTo(RichRows, MaxRows)}

\* Tables with any other header (columns missing, or one more column).
OtherTables ==
    UNION {{Table(cols, rs) : rs \in SeqUpTo(UniformRows(cols), MaxRows)} :
              cols \in (SUBSET AllCols) \ {ExpectedSet}}

NoUpload == [kind |-> "None"]
Unreadable == [kind |-> "corrupt"]

Uploads == {NoUpload, Unreadable} \cup CompleteTables \cup OtherTables

----------------------------------------------------------------------------
\* State

VARIABLES
    uploaded_file,  \* the upload widget's value
    pc,             \* position of the script
    df,             \* process_data's local DataFrame
    missing_cols,   \* process_data's missing_cols, empty until the check runs
    data,           \* process_data's return value
    messages,       \* st.error / st.info banners written so far
    preview,        \* the rows written by st.write(data.head())
    G,              \* the DiGraph of generate_data_flow_diagram
    summary         \* the lines written by generate_analysis_summary

vars == <<uploaded_file, pc, df, missing_cols, data, messages, preview, G,
          summary>>

Init ==
    /\ uploaded_file \in Uploads
    /\ pc = "main"
    /\ df = None
    /\ missing_cols = <<>>
    /\ data = None
    /\ messages = <<>>
    /\ preview = None
    /\ G = None
    /\ summary = None

----------------------------------------------------------------------------
\* process_data

\* else-branch of the main logic: no file was uploaded.
MainNoUpload ==
    /\ pc = "main"
    /\ uploaded_file = NoUpload
    /\ messages' = Append(messages, <<"info">>)
    /\ pc' = "done"
    /\ UNCHANGED <<uploaded_file, df, missing_cols, data, preview, G, summary>>

\* pd.read_excel succeeds.
ReadExcel ==
    /\ pc = "main"
    /\ uploaded_file.kind = "DataFrame"
    /\ df' = uploaded_file
    /\ pc' = "check"
    /\ UNCHANGED <<uploaded_file, missing_cols, data, messages, preview, G,
                   summary>>

\* pd.read_excel raises; the except clause reports and returns None.
ReadExcelError ==
    /\ pc = "main"
    /\ uploaded_file = Unreadable
    /\ messages' = Append(messages, <<"Error reading file">>)
    /\ data' = None
    /\ pc' = "returned"
    /\ UNCHANGED <<uploaded_file, df, missing_cols, preview, G, summary>>

MissingColsInverted(columns) ==
    SelectSeq(expected_columns, LAMBDA col : col \in columns)

MissingCols(columns) ==
    SelectSeq(expected_columns, LAMBDA col : col \notin columns)

fillnaLineageOnly(d) ==
    [d EXCEPT !.rows =
        [i \in DOMAIN d.rows |->
            [c \in d.columns |->
                IF d.rows[i][c] = NaN /\ c \in LineageSet THEN NA
                ELSE d.rows[i][c]]]]

fillna(d) ==
    [d EXCEPT !.rows =
        [i \in DOMAIN d.rows |->
            [c \in d.columns |->
                IF d.rows[i][c] = NaN THEN NA ELSE d.rows[i][c]]]]

CheckColumnsReturnsTable ==
    /\ pc = "check"
    /\ missing_cols' = MissingCols(df.columns)
    /\ IF missing_cols' # <<>>
       THEN /\ messages' = Append(messages,
                                  <<"Missing expected columns", missing_cols'>>)
            /\ data' = df
            /\ pc' = "returned"
       ELSE /\ pc' = "fill"
            /\ UNCHANGED <<messages, data>>
    /\ UNCHANGED <<uploaded_file, df, preview, G, summary>>

CheckColumnsAfterFill ==
    /\ pc = "check"
    /\ df' = fillna(df)
    /\ missing_cols' = MissingCols(df.columns)
    /\ IF missing_cols' # <<>>
       THEN /\ messages' = Append(messages,
                                  <<"Missing expected columns", missing_cols'>>)
            /\ data' = None
            /\ pc' = "returned"
       ELSE /\ pc' = "fill"
            /\ UNCHANGED <<messages, data>>
    /\ UNCHANGED <<uploaded_file, preview, G, summary>>

\* The column check, and the early return when a column is missing.
CheckColumns ==
    /\ pc = "check"
    /\ missing_cols' = MissingCols(df.columns)
    /\ IF missing_cols' # <<>>
       THEN /\ messages' = Append(messages,
                                  <<"Missing expected columns", missing_cols'>>)
            /\ data' = None
            /\ pc' = "returned"
       ELSE /\ pc' = "fill"
            /\ UNCHANGED <<messages, data>>
    /\ UNCHANGED <<uploaded_file, df, preview, G, summary>>

\* df.fillna("N/A", inplace=True); return df
FillNa ==
    /\ pc = "fill"
    /\ df' = fillna(df)
    /\ data' = df'
    /\ pc' = "returned"
    /\ UNCHANGED <<uploaded_file, missing_cols, messages, preview, G, summary>>

----------------------------------------------------------------------------
\* generate_data_flow_diagram

EmptyGraph ==
    [kind |-> "DiGraph", nodes |-> {}, edges |-> {},
     compliance |-> [e \in {} |-> NaN]]

add_node(g, n) == [g EXCEPT !.nodes = @ \cup {n}]

add_edge_no_loop(g, u, v) ==
    IF u = v THEN g
    ELSE [g EXCEPT !.nodes = @ \cup {u, v}, !.edges = @ \cup {<<u, v>>}]

add_edge(g, u, v) ==
    [g EXCEPT !.nodes = @ \cup {u, v}, !.edges = @ \cup {<<u, v>>}]

set_compliance_once(g, u, v, c) ==
    [g EXCEPT !.compliance =
        [e \in DOMAIN @ \cup {<<u, v>>} |->
            IF e \in DOMAIN @ THEN @[e] ELSE c]]

set_compliance(g, u, v, c) ==
    [g EXCEPT !.compliance =
        [e \in DOMAIN @ \cup {<<u, v>>} |-> IF e = <<u, v>> THEN c ELSE @[e]]]

RowNodes(g, row) ==
    add_node(add_node(add_node(add_node(g, row[SourceCol]), row[AggCol]),
                      row[AnalysisCol]), row[PublishCol])

RowEdgesTwo(g, row) ==
    add_edge(add_edge(g, row[SourceCol], row[AggCol]),
             row[AggCol], row[AnalysisCol])

RowEdges(g, row) ==
    add_edge(add_edge(add_edge(g, row[SourceCol], row[AggCol]),
                      row[AggCol], row[AnalysisCol]),
             row[AnalysisCol], row[PublishCol])

RowCompliance(g, row) ==
    set_compliance(
        set_compliance(
            set_compliance(g, row[SourceCol], row[AggCol], row[ComplianceCol]),
            row[AggCol], row[AnalysisCol], row[ComplianceCol]),
        row[AnalysisCol], row[PublishCol], row[ComplianceCol])

ProcessRowSkipKnownSource(g, row) ==
    IF row[SourceCol] \in g.nodes THEN g
    ELSE RowCompliance(RowEdges(RowNodes(g, row), row), row)

\* The body of the loop over df.iterrows().
ProcessRow(g, row) == RowCompliance(RowEdges(RowNodes(g, row), row), row)

RECURSIVE WalkRows(_, _, _)
WalkRows(g, rows, i) ==
    IF i > Len(rows) THEN g
    ELSE WalkRows(ProcessRow(g, rows[i]), rows, i + 1)

BuildGraph(rows) == WalkRows(EmptyGraph, rows, 1)

----------------------------------------------------------------------------
\* generate_analysis_summary

Column(d, col) == [i \in DOMAIN d.rows |-> d.rows[i][col]]

uniqueKeepsAll(s) == s

\* Series.unique(): the values in order of first appearance.
RECURSIVE unique(_)
unique(s) ==
    IF s = <<>> THEN <<>>
    ELSE LET init == unique(SubSeq(s, 1, Len(s) - 1))
             last == s[Len(s)]
         IN  IF last \in Range(init) THEN init ELSE Append(init, last)

SummaryOf(d) ==
    [k \in DOMAIN expected_columns |->
        [col |-> expected_columns[k],
         count |-> Len(unique(Column(d, expected_columns[k])))]]

----------------------------------------------------------------------------
\* Main application logic

head(rows) == SubSeq(rows, 1, IF Len(rows) < 5 THEN Len(rows) ELSE 5)

\* data is None: nothing more is shown.
MainSkip ==
    /\ pc = "returned"
    /\ data = None
    /\ pc' = "done"
    /\ UNCHANGED <<uploaded_file, df, missing_cols, data, messages, preview, G,
                   summary>>

\* st.write(data.head())
Preview ==
    /\ pc = "returned"
    /\ data # None
    /\ preview' = [kind |-> "rows", rows |-> head(data.rows)]
    /\ pc' = "diagram"
    /\ UNCHANGED <<uploaded_file, df, missing_cols, data, messages, G, summary>>

\* generate_data_flow_diagram(data); a row lookup of a column the table
\* lacks raises KeyError and ends the script.
GenerateDiagram ==
    /\ pc = "diagram"
    /\ IF LineageSet \cup {ComplianceCol} \subseteq data.columns
       THEN /\ G' = BuildGraph(data.rows)
            /\ pc' = "summary"
       ELSE /\ G' = G
            /\ pc' = "crashed"
    /\ UNCHANGED <<uploaded_file, df, missing_cols, data, messages, preview,
                   summary>>

\* generate_analysis_summary(data)
GenerateSummary ==
    /\ pc = "summary"
    /\ IF ExpectedSet \subseteq data.columns
       THEN /\ summary' = [kind |-> "lines", lines |-> SummaryOf(data)]
            /\ pc' = "done"
       ELSE /\ summary' = summary
            /\ pc' = "crashed"
    /\ UNCHANGED <<uploaded_file, df, missing_cols, data, messages, preview, G>>

Next ==
    \/ MainNoUpload
    \/ ReadExcel
    \/ ReadExcelError
    \/ CheckColumns
    \/ FillNa
    \/ MainSkip
    \/ Preview
    \/ GenerateDiagram
    \/ GenerateSummary

Spec == Init /\ [][Next]_vars

----------------------------------------------------------------------------
\* Properties

IsTable(x) == x.kind = "DataFrame"

\* process_data has run its column check on a table that could be read.
Checked == IsTable(uploaded_file) /\ pc \notin {"main", "check"}

\* The diagram has been built.
Built == G # None

Pos(col) == CHOOSE k \in DOMAIN expected_columns : expected_columns[k] = col

\* C1: after the column check, missing_cols holds exactly the required names
\* that are absent from the table's columns, each once and in the order of
\* the required list, and it is empty iff every required column is present.
C1_MissingColsExact ==
    Checked =>
        /\ Range(missing_cols) = ExpectedSet \ df.columns
        /\ \A i, j \in DOMAIN missing_cols :
              i < j => Pos(missing_cols[i]) < Pos(missing_cols[j])
        /\ (missing_cols = <<>>) <=> (ExpectedSet \subseteq df.columns)

C1_Witness ==
    /\ Checked
    /\ Len(missing_cols) >= 2
    /\ df.columns \cap ExpectedSet # {}
    /\ "Notes" \in df.columns

ReadFailed == uploaded_file = Unreadable
ColumnMissing ==
    IsTable(uploaded_file) /\ ~(ExpectedSet \subseteq uploaded_file.columns)

NoNaN(d) == \A i \in DOMAIN d.rows : \A c \in d.columns : d.rows[i][c] # NaN

\* C2: when the upload cannot be read or a required column is missing,
\* process_data yields no table and the preview, the graph construction and
\* the summary never run; the graph is only ever built from a table that
\* passed the column check and was normalized.
C2_ShortCircuit ==
    /\ (ReadFailed \/ ColumnMissing) =>
          /\ data = None
          /\ preview = None
          /\ G = None
          /\ summary = None
          /\ pc \in {"main", "check", "returned", "done"}
    /\ pc \in {"diagram", "summary"} \/ preview # None \/ Built
          \/ summary # None =>
          /\ IsTable(uploaded_file)
          /\ ExpectedSet \subseteq uploaded_file.columns
          /\ missing_cols = <<>>
          /\ IsTable(data)
          /\ NoNaN(data)

C2_Witness ==
    /\ pc = "done"
    /\ ColumnMissing
    /\ Len(uploaded_file.rows) > 0
    /\ Len(messages) = 1
    /\ data = None

\* C3: normalization replaces every NaN cell of every column by "N/A",
\* leaves every other cell as it was read, and normalizing the normalized
\* table again returns the same table.
C3_Normalization ==
    IsTable(data) =>
        /\ data.columns = uploaded_file.columns
        /\ DOMAIN data.rows = DOMAIN uploaded_file.rows
        /\ \A i \in DOMAIN data.rows : \A c \in data.columns :
              data.rows[i][c] =
                  IF uploaded_file.rows[i][c] = NaN THEN NA
                  ELSE uploaded_file.rows[i][c]
        /\ fillna(data) = data

C3_Witness ==
    /\ IsTable(data)
    /\ \E i \in DOMAIN data.rows :
          /\ uploaded_file.rows[i]["DCL"] = NaN
          /\ data.rows[i]["DCL"] = NA
          /\ uploaded_file.rows[i][SourceCol] # NaN

\* The three directed pairs of a row.
Pairs(row) ==
    { <<row[SourceCol], row[AggCol]>>,
      <<row[AggCol], row[AnalysisCol]>>,
      <<row[AnalysisCol], row[PublishCol]>> }

LineageTuple(row) == [k \in DOMAIN LineageCols |-> row[LineageCols[k]]]

\* C4: the edge set is exactly the union over the rows of the three pairs
\* (source, aggregate), (aggregate, analyze), (analyze, publish); with K
\* distinct lineage tuples among the rows there are at most 3*K edges.
C4_EdgeSet ==
    Built =>
        /\ G.edges = UNION {Pairs(data.rows[i]) : i \in DOMAIN data.rows}
        /\ Cardinality(G.edges) <=
              3 * Cardinality({LineageTuple(data.rows[i]) :
                                  i \in DOMAIN data.rows})

C4_Witness ==
    /\ Built
    /\ Len(data.rows) = 2
    /\ LineageTuple(data.rows[1]) = LineageTuple(data.rows[2])
    /\ Cardinality(G.edges) = 3

Producers(rows, e) == {i \in DOMAIN rows : e \in Pairs(rows[i])}

Max(S) == CHOOSE m \in S : \A n \in S : n <= m

\* C5: after the row walk every edge carries the Compliance value of the
\* last row, in table order, that produces it.
C5_LastWriterWins ==
    Built =>
        /\ DOMAIN G.compliance = G.edges
        /\ \A e \in G.edges :
              G.compliance[e] =
                  data.rows[Max(Producers(data.rows, e))][ComplianceCol]

C5_Witness ==
    /\ Built
    /\ \E e \in G.edges :
          \E i, j \in Producers(data.rows, e) :
              /\ i < j
              /\ data.rows[i][ComplianceCol] # data.rows[j][ComplianceCol]
              /\ G.compliance[e] = data.rows[j][ComplianceCol]

Perms(n) == {f \in [1..n -> 1..n] : \A i, j \in 1..n : i # j => f[i] # f[j]}

Permuted(rows, f) == [i \in DOMAIN rows |-> rows[f[i]]]

Reorderings(rows) == {Permuted(rows, f) : f \in Perms(Len(rows))}

\* C6 as stated: every reordering of the rows yields the same node set, the
\* same edge set and the same per-edge compliance annotation.
C6_OrderIrrelevant ==
    Built =>
        \A rs \in Reorderings(data.rows) :
            /\ BuildGraph(rs).nodes = G.nodes
            /\ BuildGraph(rs).edges = G.edges
            /\ BuildGraph(rs).compliance = G.compliance

Agreed(rows, e) ==
    \A i, j \in Producers(rows, e) :
        rows[i][ComplianceCol] = rows[j][ComplianceCol]

\* C6 amended: every reordering of the rows yields the same node set and the
\* same edge set, and the same compliance annotation on every edge whose
\* producing rows all carry the same Compliance value.
C6_OrderIrrelevantAmended ==
    Built =>
        \A rs \in Reorderings(data.rows) :
            /\ BuildGraph(rs).nodes = G.nodes
            /\ BuildGraph(rs).edges = G.edges
            /\ \A e \in G.edges :
                  Agreed(data.rows, e) =>
                      BuildGraph(rs).compliance[e] = G.compliance[e]

C6_Witness ==
    /\ Built
    /\ Len(data.rows) = 2
    /\ data.rows[1] # data.rows[2]
    /\ \E e \in G.edges :
          /\ Cardinality(Producers(data.rows, e)) = 2
          /\ Agreed(data.rows, e)
    /\ \E e \in G.edges : Cardinality(Producers(data.rows, e)) = 1

LabelChars ==
    { "A", "B", "C", "D", "E", "F", "G", "H", "I", "J", "K", "L", "M",
      "N", "O", "P", "Q", "R", "S", "T", "U", "V", "W", "X", "Y", "Z",
      "a", "b", "c", "d", "e", "f", "g", "h", "i", "j", "k", "l", "m",
      "n", "o", "p", "q", "r", "s", "t", "u", "v", "w", "x", "y", "z",
      "0", "1", "2", "3", "4", "5", "6", "7", "8", "9", "_", "-" }

\* C7: every node of the graph contains only letters, digits, underscores
\* and dashes; the Sales DB row yields the nodes Sales_DB, ETL-Spark,
\* Tableau and Data_Portal, and a missing lineage cell yields the node N-A.
C7_NodesSanitized ==
    Built =>
        /\ \A n \in G.nodes : Range(n) \subseteq LabelChars
        /\ (\E i \in DOMAIN uploaded_file.rows :
               uploaded_file.rows[i] = SalesRow) =>
              { <<"S", "a", "l", "e", "s", "_", "D", "B">>,
                <<"E", "T", "L", "-", "S", "p", "a", "r", "k">>,
                <<"T", "a", "b", "l", "e", "a", "u">>,
                <<"D", "a", "t", "a", "_", "P", "o", "r", "t", "a", "l">> }
                  \subseteq G.nodes
        /\ (\E i \in DOMAIN uploaded_file.rows : \E c \in LineageSet :
               uploaded_file.rows[i][c] = NaN) =>
              <<"N", "-", "A">> \in G.nodes

\* C8: the node set is exactly the set of values in the four lineage columns
\* of the table, and a row whose adjacent stages carry the same label x
\* produces the self-loop (x, x) and the node x.
C8_NodesAndSelfLoops ==
    Built =>
        /\ G.nodes = {data.rows[i][c] : i \in DOMAIN data.rows, c \in LineageSet}
        /\ \A i \in DOMAIN data.rows : \A k \in 1..3 :
              LET x == data.rows[i][LineageCols[k]]
                  y == data.rows[i][LineageCols[k + 1]]
              IN  x = y => <<x, x>> \in G.edges /\ x \in G.nodes

C8_Witness ==
    /\ Built
    /\ \E i \in DOMAIN data.rows :
          /\ \A c \in LineageSet : data.rows[i][c] = data.rows[i][SourceCol]
          /\ <<data.rows[i][SourceCol], data.rows[i][SourceCol]>> \in G.edges
    /\ \E i \in DOMAIN data.rows :
          data.rows[i][SourceCol] # data.rows[i][AggCol]

RawColumn(col) == {uploaded_file.rows[i][col] : i \in DOMAIN uploaded_file.rows}

\* C9: the summary has one line per required column, in the order of the
\* required list, giving the number of distinct values of that column in the
\* normalized table; all the cells read as NaN together count as one value.
C9_SummaryCounts ==
    summary # None =>
        /\ DOMAIN summary.lines = DOMAIN expected_columns
        /\ \A k \in DOMAIN expected_columns :
              LET col == expected_columns[k]
              IN  /\ summary.lines[k].col = col
                  /\ summary.lines[k].count =
                        Cardinality({data.rows[i][col] : i \in DOMAIN data.rows})
                  /\ summary.lines[k].count =
                        Cardinality(RawColumn(col) \ {NaN})
                        + (IF NaN \in RawColumn(col) THEN 1 ELSE 0)

C9_Witness ==
    /\ summary # None
    /\ Len(data.rows) = 2
    /\ \E k \in DOMAIN expected_columns :
          /\ summary.lines[k].count = 1
          /\ RawColumn(expected_columns[k]) = {NaN}
    /\ \E k \in DOMAIN expected_columns :
          /\ summary.lines[k].count = 2
          /\ NaN \in RawColumn(expected_columns[k])

\* C10: the column check changes no cell; when a required column is missing
\* the table stays exactly as read, and a table that differs from the one
\* read has passed the check.
C10_ValidationPure ==
    IsTable(df) =>
        /\ pc = "fill" => df = uploaded_file
        /\ missing_cols # <<>> => df = uploaded_file
        /\ df # uploaded_file =>
              /\ pc \notin {"check", "fill"}
              /\ ExpectedSet \subseteq df.columns
              /\ data = df

C10_Witness ==
    /\ IsTable(df)
    /\ pc = "returned"
    /\ missing_cols # <<>>
    /\ \E i \in DOMAIN df.rows : \E c \in df.columns : df.rows[i][c] = NaN
    /\ df = uploaded_file

====
